---- MODULE Spec2Model ----
(***************************************************************************)
(* The Twitch chat notebook: the receive loop that answers PING and logs   *)
(* every other chunk to chat.log, and get_chat_dataframe, which parses the *)
(* log back into records.                                                  *)
(*                                                                         *)
(* Text (a Python str) is a sequence of Unicode code points, data (a       *)
(* Python bytes) a sequence of byte values; the string literals of the     *)
(* notebook are written out as such sequences.                             *)
(***************************************************************************)
EXTENDS Integers, Sequences, FiniteSets, TLC

(***************************************************************************)
(* Bounds of the model.                                                    *)
(***************************************************************************)
\* iterations of the receive loop in one behaviour
MaxRecv == 2
\* records of a hand-built log handed to get_chat_dataframe
MaxRecords == 2

\* sock.recv(2048): the most bytes one receive returns
BUFSIZE == 2048

(***************************************************************************)
(* String literals of the notebook.                                        *)
(***************************************************************************)
\* 'PING'
PING == <<80, 73, 78, 71>>
\* "PONG\n"
PONG == <<80, 79, 78, 71, 10>>
\* the em dash of the log format and of line.split
EMDASH == <<8212>>
\* the literal part '\.tmi\.twitch\.tv PRIVMSG #' of the pattern
TMI_PRIVMSG == <<46, 116, 109, 105, 46, 116, 119, 105, 116, 99, 104, 46,
                 116, 118, 32, 80, 82, 73, 86, 77, 83, 71, 32, 35>>
\* the literal ' :' of the pattern
SPACE_COLON == <<32, 58>>
\* '\n\n\n'
NL3 == <<10, 10, 10>>
\* the FileHandler's terminator, '\n'
TERMINATOR == <<10>>
\* the thumbs-up emoji of the notebook's example and its name ':thumbs_up:'
THUMBS_UP == 128077
THUMBS_UP_NAME == <<58, 116, 104, 117, 109, 98, 115, 95, 117, 112, 58>>

(***************************************************************************)
(* Python's str and bytes operations, as the notebook uses them.           *)
(***************************************************************************)
\* s[i:i+len(sub)] == sub
OccursAt(s, sub, i) ==
    /\ i >= 1
    /\ i + Len(sub) - 1 <= Len(s)
    /\ \A k \in 1..Len(sub) : s[i + k - 1] = sub[k]

\* str.startswith
startswith(s, prefix) == OccursAt(s, prefix, 1)

\* the pieces of parts one after the other (''.join(parts)), by halves
RECURSIVE concat(_)
concat(parts) ==
    IF parts = <<>> THEN <<>>
    ELSE IF Len(parts) = 1 THEN parts[1]
    ELSE LET h == Len(parts) \div 2
         IN  concat(SubSeq(parts, 1, h)) \o concat(SubSeq(parts, h + 1, Len(parts)))

\* sep.join(parts)
join(sep, parts) ==
    concat([k \in 1..(2 * Len(parts) - 1) |->
               IF k % 2 = 1 THEN parts[(k + 1) \div 2] ELSE sep])

\* str.find(sep, i): the first occurrence of sep at or after position i, or 0
find(s, sep, i) ==
    LET at == {p \in i..Len(s) : OccursAt(s, sep, p)}
    IN  IF at = {} THEN 0 ELSE CHOOSE p \in at : \A q \in at : p <= q

\* str.split(sep) from position i on: the pieces between the occurrences of
\* sep, found left to right without overlap
RECURSIVE split_from(_, _, _)
split_from(s, sep, i) ==
    LET p == find(s, sep, i)
    IN  IF p = 0 THEN <<SubSeq(s, i, Len(s))>>
        ELSE <<SubSeq(s, i, p - 1)>> \o split_from(s, sep, p + Len(sep))

split(s, sep) == split_from(s, sep, 1)

\* the characters str.strip() removes (str.isspace)
WHITESPACE == (9..13) \cup (28..32) \cup {133, 160, 5760} \cup (8192..8202)
              \cup {8232, 8233, 8239, 8287, 12288}

\* str.strip()
strip(s) ==
    LET keep == {i \in 1..Len(s) : s[i] \notin WHITESPACE}
    IN  IF keep = {} THEN <<>>
        ELSE SubSeq(s, CHOOSE i \in keep : \A j \in keep : i <= j,
                       CHOOSE i \in keep : \A j \in keep : i >= j)

\* msg.split()[0].strip(): the first token of msg between whitespace, the
\* empty text where msg has none (there the indexing raises IndexError)
first_token(msg) ==
    LET keep == {i \in 1..Len(msg) : msg[i] \notin WHITESPACE}
    IN  IF keep = {} THEN <<>>
        ELSE LET first == CHOOSE i \in keep : \A j \in keep : i <= j
                 stops == {i \in first..Len(msg) : msg[i] \in WHITESPACE}
                 last == IF stops = {} THEN Len(msg)
                         ELSE (CHOOSE i \in stops : \A j \in stops : i <= j) - 1
             IN  SubSeq(msg, first, last)

\* a UTF-8 continuation byte
Continuation(b) == b >= 128 /\ b <= 191

\* the length of the UTF-8 sequence the byte c starts, 0 when it starts none
sequence_length(c) ==
    IF c < 128 THEN 1
    ELSE IF c >= 194 /\ c <= 223 THEN 2
    ELSE IF c >= 224 /\ c <= 239 THEN 3
    ELSE IF c >= 240 /\ c <= 244 THEN 4
    ELSE 0

\* a well-formed UTF-8 sequence starts at byte i of b: complete, not
\* overlong, no surrogate, at most U+10FFFF
well_formed(b, i) ==
    LET len == sequence_length(b[i])
    IN  /\ len > 0
        /\ i + len - 1 <= Len(b)
        /\ \A k \in (i + 1)..(i + len - 1) : Continuation(b[k])
        /\ (b[i] = 224 => b[i + 1] >= 160)
        /\ (b[i] = 237 => b[i + 1] <= 159)
        /\ (b[i] = 240 => b[i + 1] >= 144)
        /\ (b[i] = 244 => b[i + 1] <= 143)

\* the code point of the well-formed sequence at byte i of b
code_point(b, i) ==
    LET len == sequence_length(b[i])
    IN  IF len = 1 THEN b[i]
        ELSE IF len = 2 THEN (b[i] - 192) * 64 + (b[i + 1] - 128)
        ELSE IF len = 3
             THEN (b[i] - 224) * 4096 + (b[i + 1] - 128) * 64 + (b[i + 2] - 128)
        ELSE (b[i] - 240) * 262144 + (b[i + 1] - 128) * 4096
             + (b[i + 2] - 128) * 64 + (b[i + 3] - 128)

\* bytes.decode('utf-8'), strict: ok is FALSE where Python raises
\* UnicodeDecodeError.  The bytes are well formed when every byte that is no
\* continuation byte starts a well-formed sequence and every continuation
\* byte belongs to the sequence before it.
decode(b) ==
    LET lead == {i \in 1..Len(b) : ~Continuation(b[i])}
        ok == /\ \A i \in lead : well_formed(b, i)
              /\ \A i \in (1..Len(b)) \ lead :
                    \E j \in lead : j < i /\ i < j + sequence_length(b[j])
    IN  IF ok
        THEN [ok |-> TRUE,
              text |-> concat([i \in 1..Len(b) |->
                          IF i \in lead THEN <<code_point(b, i)>> ELSE <<>>])]
        ELSE [ok |-> FALSE, text |-> <<>>]

\* the UTF-8 bytes of one code point
encode_char(c) ==
    IF c < 128 THEN <<c>>
    ELSE IF c < 2048 THEN <<192 + (c \div 64), 128 + (c % 64)>>
    ELSE IF c < 65536
         THEN <<224 + (c \div 4096), 128 + ((c \div 64) % 64), 128 + (c % 64)>>
    ELSE <<240 + (c \div 262144), 128 + ((c \div 4096) % 64),
           128 + ((c \div 64) % 64), 128 + (c % 64)>>

\* str.encode('utf-8')
encode(s) == concat([i \in 1..Len(s) |-> encode_char(s[i])])

\* a text-mode file on writing: every '\n' becomes the platform's line
\* separator
newline_out(s, sep) ==
    concat([i \in 1..Len(s) |-> IF s[i] = 10 THEN sep ELSE <<s[i]>>])

\* a text-mode file on reading (universal newlines): '\r\n' and a lone '\r'
\* both become '\n'
newline_in(s) ==
    concat([i \in 1..Len(s) |->
               IF s[i] = 13 THEN <<10>>
               ELSE IF s[i] = 10 /\ i > 1 /\ s[i - 1] = 13 THEN <<>>
               ELSE <<s[i]>>])

\* emoji.demojize: every emoji is replaced by its name between colons, any
\* other character is kept
demojize(s) ==
    concat([i \in 1..Len(s) |->
               IF s[i] = THUMBS_UP THEN THUMBS_UP_NAME ELSE <<s[i]>>])

(***************************************************************************)
(* Time: the clock, the log's datefmt and datetime.strptime.               *)
(***************************************************************************)
\* a leap year of the Gregorian calendar
is_leap(y) == (y % 4 = 0 /\ y % 100 # 0) \/ y % 400 = 0

\* the days of month m of year y
days_in_month(y, m) ==
    IF m = 2 THEN (IF is_leap(y) THEN 29 ELSE 28)
    ELSE IF m \in {4, 6, 9, 11} THEN 30 ELSE 31

\* the zeros of the decimal digits of Unicode (category Nd): each is followed
\* by its digits 1 to 9.  '0' is 48, the full-width zero 65296
DIGIT_ZEROS ==
    {48, 1632, 1776, 1984, 2406, 2534, 2662, 2790, 2918, 3046, 3174,
     3302, 3430, 3558, 3664, 3792, 3872, 4160, 4240, 6112, 6160, 6470,
     6608, 6784, 6800, 6992, 7088, 7232, 7248, 42528, 43216, 43264,
     43472, 43504, 43600, 44016, 65296, 66720, 68912, 69734, 69872,
     69942, 70096, 70384, 70736, 70864, 71248, 71360, 71472, 71904,
     72016, 72784, 73040, 73120, 92768, 92864, 93008, 120782, 120792,
     120802, 120812, 120822, 123200, 123632, 125264, 130032}

\* \d of a str pattern: a decimal digit of any script
isdigit(c) == \E z \in DIGIT_ZEROS : c >= z /\ c <= z + 9

\* the value of a decimal digit
digit(c) == c - (CHOOSE z \in DIGIT_ZEROS : c >= z /\ c <= z + 9)

\* n written with two and with four decimal digits, zero-padded
digits2(n) == <<48 + (n \div 10), 48 + (n % 10)>>
digits4(n) == <<48 + (n \div 1000), 48 + ((n \div 100) % 10)>> \o digits2(n % 100)

\* time.strftime('%Y-%m-%d_%H:%M:%S', t), the asctime of a log record, for
\* the years 1000 to 9999
strftime(t) ==
    digits4(t.year) \o <<45>> \o digits2(t.month) \o <<45>> \o digits2(t.day)
    \o <<95>> \o digits2(t.hour) \o <<58>> \o digits2(t.minute) \o <<58>>
    \o digits2(t.second)

\* int() of a matched field: decimal digits of any script, a leading blank
\* ignored
RECURSIVE int(_)
int(f) ==
    IF f = <<>> THEN 0
    ELSE IF f[Len(f)] = 32 THEN int(SubSeq(f, 1, Len(f) - 1))
    ELSE 10 * int(SubSeq(f, 1, Len(f) - 1)) + digit(f[Len(f)])

\* the regular expressions strptime compiles the directives to
\* %Y: \d\d\d\d
re_Y(f) == Len(f) = 4 /\ \A k \in 1..4 : isdigit(f[k])
\* %m: 1[0-2]|0[1-9]|[1-9]
re_m(f) ==
    \/ Len(f) = 2 /\ f[1] = 49 /\ f[2] \in 48..50
    \/ Len(f) = 2 /\ f[1] = 48 /\ f[2] \in 49..57
    \/ Len(f) = 1 /\ f[1] \in 49..57
\* %d: 3[0-1]|[1-2]\d|0[1-9]|[1-9]| [1-9]
re_d(f) ==
    \/ Len(f) = 2 /\ f[1] = 51 /\ f[2] \in 48..49
    \/ Len(f) = 2 /\ f[1] \in 49..50 /\ isdigit(f[2])
    \/ Len(f) = 2 /\ f[1] = 48 /\ f[2] \in 49..57
    \/ Len(f) = 1 /\ f[1] \in 49..57
    \/ Len(f) = 2 /\ f[1] = 32 /\ f[2] \in 49..57
\* %H: 2[0-3]|[0-1]\d|\d
re_H(f) ==
    \/ Len(f) = 2 /\ f[1] = 50 /\ f[2] \in 48..51
    \/ Len(f) = 2 /\ f[1] \in 48..49 /\ isdigit(f[2])
    \/ Len(f) = 1 /\ isdigit(f[1])
\* %M: [0-5]\d|\d
re_M(f) ==
    \/ Len(f) = 2 /\ f[1] \in 48..53 /\ isdigit(f[2])
    \/ Len(f) = 1 /\ isdigit(f[1])
\* %S: 6[0-1]|[0-5]\d|\d
re_S(f) ==
    \/ Len(f) = 2 /\ f[1] = 54 /\ f[2] \in 48..49
    \/ Len(f) = 2 /\ f[1] \in 48..53 /\ isdigit(f[2])
    \/ Len(f) = 1 /\ isdigit(f[1])

\* where the five fields after the year start in a string laid out as
\* '%Y-%m-%d_%H:%M:%S', when they have the lengths w[1..5]
field_starts(w) ==
    LET m == 6
        d == m + w[1] + 1
        H == d + w[2] + 1
        M == H + w[3] + 1
        S == M + w[4] + 1
    IN  [m |-> m, d |-> d, H |-> H, M |-> M, S |-> S]

\* s is laid out so: the separators stand between the fields and nothing
\* follows the seconds (else "unconverted data remains")
layout(s, w) ==
    LET p == field_starts(w)
    IN  /\ Len(s) = p.S + w[5] - 1
        /\ s[5] = 45 /\ s[p.d - 1] = 45 /\ s[p.H - 1] = 95
        /\ s[p.M - 1] = 58 /\ s[p.S - 1] = 58

\* the fields of s in that layout
fields(s, w) ==
    LET p == field_starts(w)
    IN  [Y |-> SubSeq(s, 1, 4),
         m |-> SubSeq(s, p.m, p.d - 2),
         d |-> SubSeq(s, p.d, p.H - 2),
         H |-> SubSeq(s, p.H, p.M - 2),
         M |-> SubSeq(s, p.M, p.S - 2),
         S |-> SubSeq(s, p.S, Len(s))]

\* the format's regular expression matches the whole of s with these lengths
format_match(s, w) ==
    /\ layout(s, w)
    /\ LET f == fields(s, w)
       IN  /\ re_Y(f.Y) /\ re_m(f.m) /\ re_d(f.d)
           /\ re_H(f.H) /\ re_M(f.M) /\ re_S(f.S)

\* datetime.strptime(s, '%Y-%m-%d_%H:%M:%S'): ok is FALSE where Python raises
\* ValueError (no match, unconverted data, or a date or time out of range)
strptime(s) ==
    LET W == {w \in [1..5 -> 1..2] : format_match(s, w)}
    IN  IF W = {} THEN [ok |-> FALSE]
        ELSE LET f == fields(s, CHOOSE w \in W : TRUE)
                 t == [year |-> int(f.Y), month |-> int(f.m), day |-> int(f.d),
                       hour |-> int(f.H), minute |-> int(f.M),
                       second |-> int(f.S)]
             IN  IF /\ t.year >= 1
                    /\ t.day <= days_in_month(t.year, t.month)
                    /\ t.second <= 59
                 THEN [ok |-> TRUE, value |-> t]
                 ELSE [ok |-> FALSE]

\* the clock one second later
tick(t) ==
    IF t.second < 59 THEN [t EXCEPT !.second = t.second + 1]
    ELSE IF t.minute < 59 THEN [t EXCEPT !.second = 0, !.minute = t.minute + 1]
    ELSE IF t.hour < 23
         THEN [t EXCEPT !.second = 0, !.minute = 0, !.hour = t.hour + 1]
    ELSE IF t.day < days_in_month(t.year, t.month)
         THEN [t EXCEPT !.second = 0, !.minute = 0, !.hour = 0,
                        !.day = t.day + 1]
    ELSE IF t.month < 12
         THEN [t EXCEPT !.second = 0, !.minute = 0, !.hour = 0, !.day = 1,
                        !.month = t.month + 1]
    ELSE [t EXCEPT !.second = 0, !.minute = 0, !.hour = 0, !.day = 1,
                   !.month = 1, !.year = t.year + 1]

(***************************************************************************)
(* re.search with the PRIVMSG pattern: ':', group 1, '!', anything, '@',  *)
(* anything, '.tmi.twitch.tv PRIVMSG #', group 2, ' :', group 3; every     *)
(* group and every 'anything' is a greedy run of characters but '\n'.      *)
(***************************************************************************)
\* the end of the line position i is on: '.' matches anything but '\n'
line_end(s, i) ==
    LET nl == {k \in i..Len(s) : s[k] = 10}
    IN  IF nl = {} THEN Len(s) ELSE (CHOOSE k \in nl : \A j \in nl : k <= j) - 1

\* the ways the pattern matches from the ':' at position i: the positions of
\* '!', of '@', of the literal '.tmi.twitch.tv PRIVMSG #' and of ' :', in this
\* order on the line of i
matches_at(s, i) ==
    LET e == line_end(s, i)
        bang == {p \in (i + 1)..e : s[p] = 33}
        at == {p \in (i + 1)..e : s[p] = 64}
        lit == {p \in (i + 1)..e :
                   OccursAt(s, TMI_PRIVMSG, p) /\ p + Len(TMI_PRIVMSG) - 1 <= e}
        sc == {p \in (i + 1)..e : OccursAt(s, SPACE_COLON, p) /\ p + 1 <= e}
    IN  IF s[i] # 58 THEN {}
        ELSE {m \in bang \X at \X lit \X sc :
                 /\ m[1] < m[2]
                 /\ m[2] < m[3]
                 /\ m[3] + Len(TMI_PRIVMSG) <= m[4]}

\* m is tried before o by the greedy '.*'s: the earlier group is the longer
greedy_before(m, o) ==
    \/ m[1] > o[1]
    \/ m[1] = o[1] /\ m[2] > o[2]
    \/ m[1] = o[1] /\ m[2] = o[2] /\ m[3] > o[3]
    \/ m[1] = o[1] /\ m[2] = o[2] /\ m[3] = o[3] /\ m[4] >= o[4]

\* re.search: the leftmost position with a match, and there the match the
\* greedy quantifiers find first; matched is FALSE where re.search is None
re_search(s) ==
    LET starts == {i \in 1..Len(s) : matches_at(s, i) # {}}
    IN  IF starts = {} THEN [matched |-> FALSE]
        ELSE LET i == CHOOSE k \in starts : \A j \in starts : k <= j
                 M == matches_at(s, i)
                 m == CHOOSE c \in M : \A o \in M : greedy_before(c, o)
             IN  [matched |-> TRUE,
                  groups |-> <<SubSeq(s, i + 1, m[1] - 1),
                               SubSeq(s, m[3] + Len(TMI_PRIVMSG), m[4] - 1),
                               SubSeq(s, m[4] + 2, line_end(s, i))>>]

(***************************************************************************)
(* What the server sends and what a log may hold.                          *)
(***************************************************************************)
\* '\r\n', the end of a line of the protocol
CRLF == <<13, 10>>
\* the names 'al', 'bo' and 'nj'
AL == <<97, 108>>
BO == <<98, 111>>
NJ == <<110, 106>>
\* 'hi', 'yo', 'a', 'a ' and 'a — b', the bodies of the chat messages received
HI == <<104, 105>>
YO == <<121, 111>>
LETTER_A == <<97>>
A_BLANK == <<97, 32>>
A_DASH_B == <<97, 32, 8212, 32, 98>>
\* 'PING :tmi.twitch.tv\r\n', the server's liveness probe
PING_LINE == <<80, 73, 78, 71, 32, 58, 116, 109, 105, 46, 116, 119, 105, 116,
               99, 104, 46, 116, 118, 13, 10>>
\* ':tmi.twitch.tv 001 al :Welcome, GLHF!\r\n', the server's welcome
WELCOME_LINE == <<58, 116, 109, 105, 46, 116, 119, 105, 116, 99, 104, 46, 116,
                  118, 32, 48, 48, 49, 32, 97, 108, 32, 58, 87, 101, 108, 99,
                  111, 109, 101, 44, 32, 71, 76, 72, 70, 33, 13, 10>>
\* ':tmi.twitch.tv NOTICE * :Login unsuccessful', a server notice
NOTICE_LINE == <<58, 116, 109, 105, 46, 116, 119, 105, 116, 99, 104, 46, 116,
                 118, 32, 78, 79, 84, 73, 67, 69, 32, 42, 32, 58, 76, 111, 103,
                 105, 110, 32, 117, 110, 115, 117, 99, 99, 101, 115, 115, 102,
                 117, 108>>

\* 'a :b', 'a — :b' and 'hi ', bodies of chat messages in a log
A_COLON_B == <<97, 32, 58, 98>>
A_DASH_COLON_B == <<97, 32, 8212, 32, 58, 98>>
HI_BLANK == <<104, 105, 32>>
\* ' — ', what the log format puts between the time and the message
SEP == <<32, 8212, 32>>
\* ' x — ', the same after a stray word
X_SEP == <<32, 120, 32, 8212, 32>>

\* the chat message of user to channel with the given body, as the server
\* sends it: ':<user>!<user>@<user>.tmi.twitch.tv PRIVMSG #<channel> :<body>'
privmsg(user, channel, body) ==
    <<58>> \o user \o <<33>> \o user \o <<64>> \o user \o TMI_PRIVMSG
    \o channel \o SPACE_COLON \o body

\* what one sock.recv may return while the connection is open: the bytes,
\* the number of chat messages they hold, and the whole seconds the clock has
\* gone on since the last record was logged.  One chunk ends in the middle of
\* an em dash, one in the middle of a line.
Chunks ==
    { [data |-> encode(PING_LINE), privmsgs |-> 0, wait |-> 0],
      [data |-> encode(privmsg(AL, NJ, HI) \o CRLF), privmsgs |-> 1,
       wait |-> 0],
      [data |-> encode(privmsg(AL, NJ, HI) \o CRLF), privmsgs |-> 1,
       wait |-> 1],
      [data |-> encode(privmsg(AL, NJ, HI) \o CRLF
                       \o privmsg(BO, NJ, YO) \o CRLF), privmsgs |-> 2,
       wait |-> 0],
      [data |-> encode(privmsg(AL, NJ, HI) \o CRLF \o PING_LINE),
       privmsgs |-> 1, wait |-> 2],
      [data |-> encode(privmsg(AL, NJ, <<THUMBS_UP>>) \o CRLF), privmsgs |-> 1,
       wait |-> 1],
      [data |-> encode(privmsg(AL, NJ, A_BLANK)) \o <<226, 128>>,
       privmsgs |-> 0, wait |-> 0],
      [data |-> encode(privmsg(AL, NJ, LETTER_A)), privmsgs |-> 1,
       wait |-> 0] }

\* the moments the notebook may be run at
StartTimes ==
    { [year |-> 2019, month |-> 2, day |-> 28, hour |-> 23, minute |-> 59,
       second |-> 59] }

\* the line separators of the platforms: '\n' (POSIX) and '\r\n' (Windows)
LineSeps == {<<10>>, <<13, 10>>}

\* the three lines the notebook sends before the loop: PASS, NICK and JOIN
\* with the notebook's placeholder token, nickname and channel
Handshake ==
    << <<80, 65, 83, 83, 32, 60, 89, 79, 85, 82, 95, 84, 79, 75, 69, 78, 62,
         10>>,
       <<78, 73, 67, 75, 32, 60, 89, 79, 85, 82, 95, 85, 83, 69, 82, 78, 65,
         77, 69, 62, 10>>,
       <<74, 79, 73, 78, 32, 35, 110, 105, 110, 106, 97, 10>> >>

(***************************************************************************)
(* The state.                                                              *)
(***************************************************************************)
VARIABLES
    linesep,    \* os.linesep of the platform the notebook runs on
    prior,      \* history: the records chat.log held when the loop started
    conn,       \* the connection: "open", "eof" (closed by the peer: recv
                \* returns b''), "reset" (recv raises)
    pc,         \* "loop": in the receive loop; "ready": the kernel is idle;
                \* "for": in the for loop of get_chat_dataframe; "returned";
                \* "raised": get_chat_dataframe left by an exception
    exc,        \* the exception that ended the receive loop or the parse
    resp,       \* the last chunk decoded ('' while the name is unbound)
    sent,       \* the data sent on the socket, oldest first
    chatlog,    \* the bytes of the file chat.log
    clock,      \* the time of the last record logged (of the start, before)
    rx,         \* history: what each sock.recv of the loop returned
    appends,    \* history: the number of logging.info calls of the loop
    lines,      \* get_chat_dataframe: the candidate records
    n,          \* get_chat_dataframe: the candidate records gone through
    data,       \* get_chat_dataframe: the dicts appended so far
    df,         \* the records of the DataFrame returned
    src         \* history: the records a hand-built log was made of

vars == <<linesep, prior, conn, pc, exc, resp, sent, chatlog, clock, rx, appends,
          lines, n, data, df, src>>

loop_vars == <<conn, resp, sent, clock, rx, appends>>
parse_vars == <<lines, n, data, df>>

(***************************************************************************)
(* Logging.                                                                *)
(***************************************************************************)
\* a faulty format: a hyphen where the format string has the em dash
format_hyphen(t, message) == strftime(t) \o <<32, 45, 32>> \o message

\* logging.Formatter with format '%(asctime)s — %(message)s'
format(t, message) == strftime(t) \o <<32>> \o EMDASH \o <<32>> \o message

\* FileHandler.emit on a file opened in text mode with encoding utf-8: the
\* formatted record and the terminator are appended
emit(file, t, message, sep) ==
    file \o encode(newline_out(format(t, message) \o TERMINATOR, sep))

(***************************************************************************)
(* The receive loop.                                                       *)
(***************************************************************************)
\* what sock.recv(2048) may do: return a chunk of at most 2048 bytes while
\* the connection is open, b'' once the peer has closed it, raise once it is
\* reset
recv_results ==
    IF conn = "open"
    THEN {[raised |-> FALSE, data |-> c.data, privmsgs |-> c.privmsgs,
           wait |-> c.wait] :
             c \in {k \in Chunks : Len(k.data) <= BUFSIZE}}
    ELSE IF conn = "eof"
    THEN {[raised |-> FALSE, data |-> <<>>, privmsgs |-> 0, wait |-> 0]}
    ELSE {[raised |-> TRUE, data |-> <<>>, privmsgs |-> 0, wait |-> 0]}

\* the exception of a recv or send on a reset connection, and of a failed
\* decode
RecvError == "ConnectionResetError"

\* the exception of sock.send when the peer has closed its side and then
\* reset the connection (errno 32, EPIPE)
PipeError == "BrokenPipeError"
DecodeError == "UnicodeDecodeError"

\* a faulty test of the PONG branch: 'PING' in resp
is_ping_anywhere(text) == \E i \in 1..Len(text) : OccursAt(text, PING, i)

\* a faulty test of the PONG branch: resp == 'PING'
is_ping_exact(text) == text = PING

\* resp.startswith('PING'): the PONG branch
is_ping(text) == startswith(text, PING)

\* len(resp) > 0: the logging branch
is_logged(text) == Len(text) > 0

\* the clock w seconds later
RECURSIVE later(_, _)
later(t, w) == IF w = 0 THEN t ELSE later(tick(t), w - 1)

\* what may befall an iteration after recv has returned: it runs to its end;
\* the kernel is interrupted before resp is assigned, or after; the peer
\* resets the connection before the loop calls sock.send; the peer closes
\* its side and then resets the connection before the loop calls sock.send
Fates ==
    {"runs", "interrupted", "interrupted after decode", "send fails",
     "send fails after close"}

\* the exception sock.send raises under the fate, "none" when it returns
send_error(fate) ==
    IF fate = "send fails" THEN RecvError
    ELSE IF fate = "send fails after close" THEN PipeError
    ELSE "none"

\* one iteration of "while True" on the recv result r; a record is logged
\* r.wait seconds after the last one.  An exception of recv, of decode or of send is
\* not caught: it ends the loop, and so does KeyboardInterrupt.
loop_body(r, fate) ==
    \E decoded \in {decode(r.data)} :
        /\ rx' = Append(rx, r)
        /\ IF r.raised
           THEN /\ pc' = "ready"
                /\ exc' = RecvError
                /\ UNCHANGED <<conn, resp, sent, chatlog, clock, appends>>
           ELSE IF fate = "interrupted"
           THEN /\ pc' = "ready"
                /\ exc' = "KeyboardInterrupt"
                /\ UNCHANGED <<conn, resp, sent, chatlog, clock, appends>>
           ELSE IF ~decoded.ok
           THEN /\ pc' = "ready"
                /\ exc' = DecodeError
                /\ UNCHANGED <<conn, resp, sent, chatlog, clock, appends>>
           ELSE /\ resp' = decoded.text
                /\ IF fate = "interrupted after decode"
                   THEN /\ pc' = "ready"
                        /\ exc' = "KeyboardInterrupt"
                        /\ UNCHANGED <<conn, sent, chatlog, clock, appends>>
                   ELSE IF is_ping(decoded.text)
                   THEN IF send_error(fate) # "none" /\ conn = "open"
                        THEN /\ conn' = "reset"
                             /\ pc' = "ready"
                             /\ exc' = send_error(fate)
                             /\ UNCHANGED <<sent, chatlog, clock, appends>>
                        ELSE /\ sent' = Append(sent, encode(PONG))
                             /\ UNCHANGED <<conn, pc, exc, chatlog, clock,
                                            appends>>
                   ELSE IF is_logged(decoded.text)
                   THEN /\ clock' = later(clock, r.wait)
                        /\ chatlog' = emit(chatlog, clock',
                                           demojize(decoded.text), linesep)
                        /\ appends' = appends + 1
                        /\ UNCHANGED <<conn, pc, exc, sent>>
                   ELSE UNCHANGED <<conn, pc, exc, sent, chatlog, clock,
                                    appends>>

receive_loop ==
    /\ pc = "loop"
    /\ Len(rx) < MaxRecv
    /\ \E r \in recv_results : \E fate \in Fates : loop_body(r, fate)
    /\ UNCHANGED <<linesep, prior, src>>
    /\ UNCHANGED parse_vars

\* the connection is closed from outside: by the peer, or reset
close ==
    /\ pc = "loop"
    /\ conn = "open"
    /\ conn' \in {"eof", "reset"}
    /\ UNCHANGED <<linesep, prior, pc, exc, resp, sent, chatlog, clock, rx, appends,
                   src>>
    /\ UNCHANGED parse_vars

\* "This will keep running until you stop it": the kernel is interrupted
interrupt ==
    /\ pc = "loop"
    /\ pc' = "ready"
    /\ exc' = "KeyboardInterrupt"
    /\ UNCHANGED <<linesep, prior, conn, resp, sent, chatlog, clock, rx, appends,
                   src>>
    /\ UNCHANGED parse_vars

(***************************************************************************)
(* get_chat_dataframe.                                                     *)
(***************************************************************************)
\* the classes "except Exception" catches, among those raised here
Exception ==
    {"ValueError", "AttributeError", "UnicodeDecodeError",
     "ConnectionResetError", "BrokenPipeError"}

\* "except Exception: pass" catches e
caught(e) == e \in Exception

\* line.split('—')[0].strip()
time_logged(line) == strip(split(line, EMDASH)[1])

\* '—'.join(line.split('—')[1:]).strip()
username_message(line) == strip(join(EMDASH, Tail(split(line, EMDASH))))

\* the body of the try: the dict to append, or the exception raised
\* (strptime raises ValueError; re.search returning None makes .groups()
\* raise AttributeError)
try_body(line) ==
    LET t == strptime(time_logged(line))
        found == re_search(username_message(line))
    IN  IF ~t.ok THEN [raised |-> "ValueError"]
        ELSE IF ~found.matched THEN [raised |-> "AttributeError"]
        ELSE [raised |-> "none",
              d |-> [dt |-> t.value,
                     channel |-> found.groups[2],
                     username |-> found.groups[1],
                     message |-> found.groups[3]]]

\* open(file, 'r', encoding='utf-8') and f.read().split('\n\n\n')
read_lines(file) ==
    LET content == decode(file)
    IN  IF content.ok
        THEN [raised |-> "none", lines |-> split(newline_in(content.text), NL3)]
        ELSE [raised |-> DecodeError]

\* get_chat_dataframe up to the for loop
read_log ==
    /\ pc = "ready"
    /\ \E r \in {read_lines(chatlog)} :
           IF r.raised = "none"
           THEN /\ lines' = r.lines
                /\ pc' = "for"
                /\ exc' = exc
           ELSE /\ lines' = lines
                /\ pc' = "raised"
                /\ exc' = r.raised
    /\ n' = 0
    /\ data' = <<>>
    /\ UNCHANGED <<linesep, prior, chatlog, src, df>>
    /\ UNCHANGED loop_vars

\* one iteration of "for line in lines"
parse_line ==
    /\ pc = "for"
    /\ n < Len(lines)
    /\ \E r \in {try_body(lines[n + 1])} :
           IF r.raised = "none"
           THEN /\ data' = Append(data, r.d)
                /\ UNCHANGED <<pc, exc>>
           ELSE IF caught(r.raised)
           THEN UNCHANGED <<data, pc, exc>>
           ELSE /\ pc' = "raised"
                /\ exc' = r.raised
                /\ data' = data
    /\ n' = n + 1
    /\ UNCHANGED <<linesep, prior, chatlog, src, lines, df>>
    /\ UNCHANGED loop_vars

\* pd.DataFrame().from_records(data)
return_df ==
    /\ pc = "for"
    /\ n = Len(lines)
    /\ df' = data
    /\ pc' = "returned"
    /\ UNCHANGED <<linesep, prior, chatlog, src, exc, lines, n, data>>
    /\ UNCHANGED loop_vars

(***************************************************************************)
(* The notebook: the loop runs on a fresh chat.log until it is stopped,    *)
(* then the log is parsed.                                                 *)
(***************************************************************************)
\* the moment of the record an earlier run left in chat.log
EarlierAt ==
    [year |-> 2018, month |-> 12, day |-> 9, hour |-> 10, minute |-> 0,
     second |-> 0]

\* what chat.log may hold before the notebook is run: FileHandler opens it
\* in append mode, so it is empty, or holds what an earlier run logged
earlier_logs(sep) ==
    {<<>>, emit(<<>>, EarlierAt, privmsg(AL, NJ, HI) \o CRLF, sep)}

\* the state when the loop starts.  The cells before it that show one recv
\* (resp = sock.recv(2048).decode('utf-8')) and one logging.info(resp) may
\* have been run, on the welcome line, or not.
Init ==
    /\ linesep \in LineSeps
    /\ clock \in StartTimes
    /\ \E earlier \in earlier_logs(linesep) : \E shown \in BOOLEAN :
           IF shown
           THEN /\ resp = WELCOME_LINE
                /\ \E file \in {emit(earlier, clock, WELCOME_LINE, linesep)} :
                       chatlog = file
                /\ prior = IF earlier = <<>> THEN 1 ELSE 2
           ELSE /\ resp = <<>>
                /\ chatlog = earlier
                /\ prior = IF earlier = <<>> THEN 0 ELSE 1
    /\ conn = "open"
    /\ pc = "loop"
    /\ exc = "none"
    /\ sent = Handshake
    /\ rx = <<>>
    /\ appends = 0
    /\ lines = <<>>
    /\ n = 0
    /\ data = <<>>
    /\ df = <<>>
    /\ src = <<>>

Next ==
    \/ receive_loop
    \/ close
    \/ interrupt
    \/ read_log
    \/ parse_line
    \/ return_df

Spec == Init /\ [][Next]_vars

(***************************************************************************)
(* get_chat_dataframe on a hand-built log: records '<time><mid><line>',    *)
(* each followed by three newlines.                                        *)
(***************************************************************************)
\* no datetime
NoTime ==
    [year |-> 0, month |-> 0, day |-> 0, hour |-> 0, minute |-> 0, second |-> 0]

\* the time fields of the records: the text, whether it is a time in the
\* format '%Y-%m-%d_%H:%M:%S', and which.  In this order:
\* '2018-12-10_11:26:40', '2018-2-3_4:5:6', 'not-a-date',
\* '2018-02-30_11:26:40', '2018-12-10_11:26:60', and '2018-12-10_11:26:40'
\* with its last digit the full-width zero
LoggedAt ==
    [text |-> <<50, 48, 49, 56, 45, 49, 50, 45, 49, 48, 95, 49, 49, 58, 50,
                54, 58, 52, 48>>,
     valid |-> TRUE,
     time |-> [year |-> 2018, month |-> 12, day |-> 10, hour |-> 11,
               minute |-> 26, second |-> 40]]

Timestamps ==
    { LoggedAt,
      [text |-> <<50, 48, 49, 56, 45, 50, 45, 51, 95, 52, 58, 53, 58, 54>>,
       valid |-> TRUE,
       time |-> [year |-> 2018, month |-> 2, day |-> 3, hour |-> 4,
                 minute |-> 5, second |-> 6]],
      [text |-> <<110, 111, 116, 45, 97, 45, 100, 97, 116, 101>>,
       valid |-> FALSE, time |-> NoTime],
      [text |-> <<50, 48, 49, 56, 45, 48, 50, 45, 51, 48, 95, 49, 49, 58, 50,
                  54, 58, 52, 48>>,
       valid |-> FALSE, time |-> NoTime],
      [text |-> <<50, 48, 49, 56, 45, 49, 50, 45, 49, 48, 95, 49, 49, 58, 50,
                  54, 58, 54, 48>>,
       valid |-> FALSE, time |-> NoTime],
      [text |-> <<50, 48, 49, 56, 45, 49, 50, 45, 49, 48, 95, 49, 49, 58, 50,
                  54, 58, 52, 65296>>,
       valid |-> TRUE, time |-> LoggedAt.time] }

\* what stands between the time and the line: ' — ', a blank (no separator),
\* ' x — ' and a bare em dash
Mids == {SEP, <<32>>, X_SEP, EMDASH}

\* the bodies of the chat messages of a log
Bodies == {HI, A_DASH_B, A_COLON_B, A_DASH_COLON_B, <<>>, HI_BLANK}

\* a record of a log with a chat message, and one with a server notice
chat_record(ts, mid, user, channel, body) ==
    [ts |-> ts, mid |-> mid, privmsg |-> TRUE, user |-> user,
     channel |-> channel, body |-> body,
     line |-> privmsg(user, channel, body)]

notice_record(ts, mid) ==
    [ts |-> ts, mid |-> mid, privmsg |-> FALSE, user |-> <<>>,
     channel |-> <<>>, body |-> <<>>, line |-> NOTICE_LINE]

\* the records a log is built of: the record of the notebook's example with
\* one part varied at a time
SrcRecords ==
    {chat_record(ts, SEP, AL, NJ, HI) : ts \in Timestamps}
    \cup {chat_record(LoggedAt, mid, AL, NJ, HI) : mid \in Mids}
    \cup {chat_record(LoggedAt, SEP, AL, NJ, body) : body \in Bodies}
    \cup {chat_record(LoggedAt, SEP, <<>>, NJ, HI),
          chat_record(LoggedAt, SEP, AL, <<>>, HI),
          notice_record(LoggedAt, SEP)}

\* the text of a log of these records, three newlines after each
log_text(records) ==
    concat([k \in 1..Len(records) |->
               records[k].ts.text \o records[k].mid \o records[k].line \o NL3])

\* the logs of at most MaxRecords records
SrcLogs == UNION {[1..k -> SrcRecords] : k \in 0..MaxRecords}

\* the bytes that follow the text of the log in the file: none, or bytes that
\* are not UTF-8 (a byte that no encoding of a character has; an em dash cut
\* after its second byte; the em dash of code page 1252)
Damage == {<<>>, <<255>>, <<226, 128>>, <<151>>}

\* the file get_chat_dataframe is given: the text of a log of records as a
\* text-mode UTF-8 file holds it, and the bytes that follow it
ParserInit ==
    /\ linesep \in LineSeps
    /\ src \in SrcLogs
    /\ prior = Len(src)
    /\ \E text \in {log_text(src)} :
       \E written \in {newline_out(text, linesep)} :
       \E damage \in Damage : chatlog = encode(written) \o damage
    /\ conn = "open"
    /\ pc = "ready"
    /\ exc = "none"
    /\ resp = <<>>
    /\ sent = Handshake
    /\ clock = LoggedAt.time
    /\ rx = <<>>
    /\ appends = 0
    /\ lines = <<>>
    /\ n = 0
    /\ data = <<>>
    /\ df = <<>>

ParserNext ==
    \/ read_log
    \/ parse_line
    \/ return_df

ParserSpec == ParserInit /\ [][ParserNext]_vars

(***************************************************************************)
(* The claims.                                                             *)
(***************************************************************************)
\* the step is an iteration of the loop: one more recv has returned
Received == Len(rx') = Len(rx) + 1

\* what that recv returned
Chunk == rx'[Len(rx')]

\* the iteration ran to its end: no exception, no interrupt
Completed == pc' = "loop"

\* the bytes the step appended to chat.log
Appended == SubSeq(chatlog', Len(chatlog) + 1, Len(chatlog'))

\* text begins with the four characters P, I, N, G
BeginsWithPing(text) == Len(text) >= 4 /\ SubSeq(text, 1, 4) = <<80, 73, 78, 71>>

\* the chunk was received and decoded, and its text starts with PING
PingFirst(r) ==
    /\ ~r.raised
    /\ \E decoded \in {decode(r.data)} :
           decoded.ok /\ BeginsWithPing(decoded.text)

\* the chunk was received and decoded, and its text is not empty and does
\* not start with PING
ChatText(r) ==
    /\ ~r.raised
    /\ \E decoded \in {decode(r.data)} :
           decoded.ok /\ decoded.text # <<>> /\ ~BeginsWithPing(decoded.text)

\* C1 as claimed: for every received chunk whose decoded text starts with
\* PING, the loop sends exactly one reply, the bytes of "PONG\n", and
\* appends nothing to the log.
C1_EveryPingAnswered ==
    [][(Received /\ PingFirst(Chunk))
          => /\ chatlog' = chatlog
             /\ appends' = appends
             /\ sent' = Append(sent, <<80, 79, 78, 71, 10>>)]_vars

\* C1 as amended: for every received chunk whose decoded text starts with
\* PING, the loop appends nothing to the log and, when the iteration runs to
\* its end, sends exactly one reply, the bytes of "PONG\n"; an iteration
\* that an interrupt or a connection lost before the send cuts short sends
\* nothing.
C1_PingAnswered ==
    [][(Received /\ PingFirst(Chunk))
          => /\ chatlog' = chatlog
             /\ appends' = appends
             /\ IF Completed
                THEN sent' = Append(sent, <<80, 79, 78, 71, 10>>)
                ELSE sent' = sent]_vars

\* a PING chunk has been received and answered, and nothing was logged
C1_Witness ==
    /\ pc = "loop"
    /\ rx # <<>>
    /\ BeginsWithPing(resp)
    /\ sent = Append(Handshake, <<80, 79, 78, 71, 10>>)
    /\ chatlog = <<>>

\* C2 as claimed: for every received chunk that is non-empty and does not
\* start with PING, exactly one log append occurs, nothing is sent, and the
\* record appended is the timestamp, ' — ' and the chunk's decoded text
\* verbatim (then the newline that ends the record, the file being written in
\* text mode).
C2_Verbatim ==
    [][(Received /\ ChatText(Chunk))
          => /\ sent' = sent
             /\ appends' = appends + 1
             /\ \E written \in {decode(Appended)} :
                \E text \in {decode(Chunk.data).text} :
                   /\ written.ok
                   /\ written.text =
                          newline_out(strftime(clock')
                                      \o <<32, 8212, 32>> \o text
                                      \o <<10>>, linesep)]_vars

\* C2 as amended: for every received chunk that is non-empty and does not
\* start with PING, nothing is sent and, when the iteration runs to its end,
\* exactly one log append occurs and the record appended is the timestamp,
\* ' — ' and the chunk's decoded text with every emoji replaced by its name
\* between colons (then the newline that ends the record, the file being
\* written in text mode); an iteration that an interrupt cuts short appends
\* nothing.
C2_Demojized ==
    [][(Received /\ ChatText(Chunk))
          => /\ sent' = sent
             /\ IF Completed
                THEN /\ appends' = appends + 1
                     /\ \E written \in {decode(Appended)} :
                        \E text \in {decode(Chunk.data).text} :
                           /\ written.ok
                           /\ written.text =
                                  newline_out(strftime(clock')
                                              \o <<32, 8212, 32>>
                                              \o demojize(text)
                                              \o <<10>>, linesep)
                ELSE chatlog' = chatlog /\ appends' = appends]_vars

\* a chunk with an emoji has been received and logged
C2_Witness ==
    /\ pc = "loop"
    /\ \E i \in 1..Len(resp) : resp[i] = THUMBS_UP
    /\ appends = 1
    /\ chatlog # <<>>
    /\ sent = Handshake

\* the reads of the loop that returned b'': reads of a closed connection
EmptyReads == {i \in 1..Len(rx) : ~rx[i].raised /\ rx[i].data = <<>>}

\* C3: once the transport is closed the loop observes the closure and exits;
\* it never keeps iterating on a closed connection: it does not read a closed
\* connection a second time.
C3_NoSpinOnClosed == Cardinality(EmptyReads) <= 1

\* the record of a log is well formed: a valid timestamp, ' — ', and a chat
\* message with a non-empty user name, channel and body
WellFormed(r) ==
    /\ r.ts.valid
    /\ r.mid = <<32, 8212, 32>>
    /\ r.privmsg
    /\ r.user # <<>> /\ r.channel # <<>> /\ r.body # <<>>

\* the ParsedMessage of a well-formed record
Expected(r) ==
    [dt |-> r.ts.time, channel |-> r.channel, username |-> r.user,
     message |-> r.body]

\* C4: for a log of well-formed records, three newlines after each, the
\* parser yields exactly one ParsedMessage per record, in log order, with the
\* record's timestamp, user name, channel and message.
C4_RoundTrip ==
    (pc = "returned" /\ \A i \in 1..Len(src) : WellFormed(src[i]))
        => df = [i \in 1..Len(src) |-> Expected(src[i])]

\* the text holds an em dash
HasDash(text) == \E i \in 1..Len(text) : text[i] = 8212

\* C5: for a well-formed record whose body holds the em dash, the parsed
\* message is the whole body.
C5_DashPreserved ==
    (pc = "returned" /\ \A i \in 1..Len(src) : WellFormed(src[i]))
        => /\ Len(df) = Len(src)
           /\ \A i \in 1..Len(src) :
                 HasDash(src[i].body) => df[i].message = src[i].body

\* the record is kept: its first token is a timestamp that parses, a
\* separator follows it, and the line after the separator is a chat message
Kept(r) ==
    /\ r.ts.valid
    /\ r.mid \in {<<32, 8212, 32>>, <<32, 120, 32, 8212, 32>>}
    /\ r.privmsg

\* C6: for any content of the file the parser returns and never raises; a
\* record whose timestamp does not parse, that has no separator, or whose
\* line is no chat message contributes nothing, and the other records are
\* parsed all the same, in order.
C6_NeverRaises ==
    /\ pc # "raised"
    /\ pc = "returned" =>
          /\ n = Len(lines)
          /\ LET kept == SelectSeq(src, Kept)
             IN  /\ Len(df) = Len(kept)
                 /\ \A k \in 1..Len(kept) : df[k].dt = kept[k].ts.time

\* C7: every ParsedMessage has a non-empty user name, channel and message.
C7_Complete ==
    \A k \in 1..Len(data) :
        /\ data[k].username # <<>>
        /\ data[k].channel # <<>>
        /\ data[k].message # <<>>

\* C8: the split of the log the loop wrote, on a file that was empty, yields
\* exactly one candidate record with text per logged receive event.
C8_OneCandidatePerEvent ==
    (pc \in {"for", "returned"} /\ prior = 0)
        => Cardinality({k \in 1..Len(lines) : lines[k] # <<>>}) = appends

\* C9: a chunk that cannot be decoded does not end the loop.
C9_DecodeRecoverable == ~(pc = "ready" /\ exc = "UnicodeDecodeError")

\* the chat messages in the chunks received
RECURSIVE PrivmsgsReceived(_)
PrivmsgsReceived(received) ==
    IF received = <<>> THEN 0
    ELSE Head(received).privmsgs + PrivmsgsReceived(Tail(received))

\* C10: a chunk with several chat messages is logged as one record, and
\* every chat message of it yields a ParsedMessage of its own: parsing the
\* log of a loop that received and logged one chunk, on a file that was
\* empty, gives as many ParsedMessages as the chunk had chat messages.
C10_EveryLineParsed ==
    (pc = "returned" /\ prior = 0 /\ Len(rx) = 1 /\ appends = 1)
        => Len(df) = PrivmsgsReceived(rx)

\* the candidate record is to be accepted: its first token between
\* whitespace is a time in the format, and the text after its first em dash
\* matches the pattern of a chat message
TokenAccepted(line) ==
    /\ strptime(first_token(line)).ok
    /\ HasDash(line)
    /\ re_search(username_message(line)).matched

\* C11: the parser takes as the time of a record its first token between
\* whitespace: a candidate record yields a ParsedMessage, with the time of
\* that token, exactly when the token is a time in the format and the text
\* after the first em dash matches the pattern of a chat message, whatever
\* stands between the token and the em dash.
C11_FirstToken ==
    [][(pc = "for" /\ n' = n + 1)
          => \E line \in {lines[n']} :
                IF TokenAccepted(line)
                THEN /\ Len(data') = Len(data) + 1
                     /\ data'[Len(data')].dt = strptime(first_token(line)).value
                ELSE data' = data]_vars

\* the chunk was received and decoded, and its text has a PING after its
\* start but none at its start
PingLater(r) ==
    /\ ~r.raised
    /\ \E decoded \in {decode(r.data)} :
           /\ decoded.ok
           /\ ~BeginsWithPing(decoded.text)
           /\ \E i \in 2..Len(decoded.text) :
                  OccursAt(decoded.text, <<80, 73, 78, 71>>, i)

\* the bytes of the chunk's text as chat.log holds them
Logged(r) == encode(newline_out(demojize(decode(r.data).text), linesep))

\* C12 as claimed: the loop sends PONG if and only if the chunk starts with
\* PING.  Nothing is sent but one 'PONG\n' in an iteration on a chunk that
\* starts with PING, and every such iteration sends it; a chunk with a PING
\* after its start gets no PONG and is logged with all its text, the PING
\* included; the PONGs sent are as many as the chunks received that start
\* with PING.
C12_PongCountExact ==
    [][/\ sent' # sent
          => /\ Received
             /\ PingFirst(Chunk)
             /\ sent' = Append(sent, <<80, 79, 78, 71, 10>>)
       /\ (Received /\ PingFirst(Chunk)) => sent' # sent
       /\ (Received /\ PingLater(Chunk))
          => \E logged \in {Logged(Chunk)} :
                \E j \in 1..Len(Appended) : OccursAt(Appended, logged, j)
       /\ Len(sent') - Len(Handshake)
             = Cardinality({i \in 1..Len(rx') : PingFirst(rx'[i])})]_vars

\* C12 as amended: nothing is sent but one 'PONG\n' in an iteration on a
\* chunk that starts with PING, and every such iteration that runs to its
\* end sends it; a chunk with a PING after its start gets no PONG and, when
\* its iteration runs to its end, is logged with all its text, the PING
\* included; while the loop runs, the PONGs sent are as many as the chunks
\* received that start with PING.
C12_PongIffPingFirst ==
    [][/\ sent' # sent
          => /\ Received
             /\ PingFirst(Chunk)
             /\ sent' = Append(sent, <<80, 79, 78, 71, 10>>)
       /\ (Received /\ Completed /\ PingFirst(Chunk)) => sent' # sent
       /\ (Received /\ Completed /\ PingLater(Chunk))
          => \E logged \in {Logged(Chunk)} :
                \E j \in 1..Len(Appended) : OccursAt(Appended, logged, j)
       /\ Completed
          => Len(sent') - Len(Handshake)
                = Cardinality({i \in 1..Len(rx') : PingFirst(rx'[i])})]_vars

\* a chunk with a PING after a chat message has been received and logged
\* without a PONG, and a chunk starting with PING has been answered
C12_Witness ==
    /\ pc = "loop"
    /\ Len(rx) = 2
    /\ PingLater(rx[1])
    /\ PingFirst(rx[2])
    /\ appends = 1
    /\ Len(sent) = Len(Handshake) + 1
====
